---- MODULE Spec2Model ----
(***************************************************************************)
(* Model of the real-time update client of aimultibox:                     *)
(* frontend/src/hooks/useSSE.ts (connection manager, dispatch registry,    *)
(* frame listener).  The browser's EventSource and timer queue are the     *)
(* environment: a transport has a readyState and delivers open, error and  *)
(* named-event callbacks while it is not CLOSED; a pending timer may fire   *)
(* at any moment.  Callbacks run to completion, one at a time.             *)
(* Also modelled: frontend/src/hooks/useNotification.ts (notify,           *)
(* requestPermission) and the SSE handlers of the currency consumer        *)
(* useCurrencyData.                                                        *)
(*                                                                         *)
(* Delays are kept in eighths of a millisecond, the resolution at which    *)
(* every delay below the cap (3000 * 1.5^k, k <= 6) is an exact integer.   *)
(***************************************************************************)
EXTENDS Integers, Sequences, FiniteSets, TLC

VARIABLES
    scope,                  \* lifecycle of the owning component's effect
    isConnected,            \* useState(false)
    eventSourceRef,         \* 0 = null, else the transport held
    es,                     \* transport id -> readyState, of every transport not yet garbage
    reconnectAttemptsRef,   \* useRef(0)
    reconnectTimeoutRef,    \* 0 = undefined, else the id returned by the last setTimeout
    timers,                 \* pending window timers: id -> delay (1/8 ms), all run connect
    handlersRef,            \* kind -> handlers in insertion order (Map of Sets)
    pass,                   \* the dispatch pass (handlers.forEach) in progress, if any
    lastOp,                 \* the callback or operation that ran last
    consecutiveErrors,      \* transport errors since the last open / manual reconnect / start
    since,                  \* what last reset that run: "start", "open" or "reconnect"
    observed,               \* the connection's states after each operation, when recorded
    recording,              \* whether this behaviour records them
    isSupported,            \* 'Notification' in window
    permission,             \* useNotification: useState(Notification.permission)
    isGrantedRef,           \* consumer's ref, synced with isGranted by an effect
    notificationEnabledRef, \* consumer's ref of the stored setting
    stored,                 \* localStorage value under NOTIFICATION_ENABLED
    inFlight,               \* getRates(false) requests of handleRatesUpdated not yet settled
    issued,                 \* getRates requests issued so far (the last one's number)
    cache,                  \* the request whose response the rates cache entry holds, 0 = none
    notifications,          \* alert notifications constructed and on display
    consumer,               \* the consumer component and the closures its effect subscribed
    refresh,                \* a refresh() call awaiting getRates(true), if any
    effect,                 \* what the last consumer / notification operation did
    promises,               \* promises returned to dispatchEvent by handlers, not yet settled
    unhandled               \* a rejection reached no handler (unhandledrejection)

vars == <<scope, isConnected, eventSourceRef, es, reconnectAttemptsRef,
          reconnectTimeoutRef, timers, handlersRef, pass, lastOp,
          consecutiveErrors, since, observed, recording, isSupported, permission,
          isGrantedRef, notificationEnabledRef, stored, inFlight, issued, cache,
          notifications, consumer, refresh, effect, promises, unhandled>>

connVars == <<scope, isConnected, eventSourceRef, es, reconnectAttemptsRef,
              reconnectTimeoutRef, timers, consecutiveErrors, since, observed,
              recording>>

notifVars == <<isSupported, permission>>

settingVars == <<notificationEnabledRef, stored>>

cacheVars == <<inFlight, issued, cache>>

clientVars == <<notifVars, isGrantedRef, settingVars, cacheVars, notifications,
                consumer, refresh, effect>>

asyncVars == <<promises, unhandled>>

----------------------------------------------------------------------------
(* Bounds *)

MaxAttempts == 8        \* transport errors are not taken beyond this attempt count
MaxTimers == 2          \* pending timers at a time
MaxTransports == 2      \* transport objects alive at a time
MaxAttemptsClient == 2  \* the same, in the specification of the whole client
MaxTimersClient == 1    \* the same, in the specification of the whole client
MaxObserved == 8        \* operations whose resulting state is recorded
MaxInFlight == 2        \* getRates calls awaited at a time
MaxRequests == 3        \* getRates requests issued in a behaviour
MaxNotifications == 2   \* alert notifications on display
MaxPromises == 2        \* handler promises pending at a time

(* Program constants *)

RECONNECT_DELAY_MS == 3000
MAX_RECONNECT_DELAY_MS == 30000

SSEEventType == {"connected", "rates_updated", "alert_triggered"}

\* an event name the stream may carry that is not one of the three
UnknownKind == "heartbeat"

\* handlersRef is a Map keyed by string: at run time any kind can be a key
Kinds == SSEEventType \cup {UnknownKind}

ListenedAny == Kinds

\* const eventTypes = ['connected', 'rates_updated', 'alert_triggered']: the
\* kinds each EventSource gets a listener for
Listened == SSEEventType

----------------------------------------------------------------------------
(* Arithmetic helpers *)

Ms(ms) == ms * 8

RECURSIVE Pow(_, _)
Pow(b, e) == IF e = 0 THEN 1 ELSE b * Pow(b, e - 1)

Min(a, b) == IF a <= b THEN a ELSE b

MinOf(S) == CHOOSE x \in S : \A y \in S : x <= y

\* Math.min(RECONNECT_DELAY_MS * Math.pow(1.5, attempts - 1), MAX_RECONNECT_DELAY_MS)
\* 1.5^k = 3^k / 2^k; the quotient is exact whenever it is below the cap.
\* The value is passed to setTimeout as computed, without rounding.
BackoffNoCap(attempts) ==
    (Ms(RECONNECT_DELAY_MS) * Pow(3, attempts - 1)) \div Pow(2, attempts - 1)

Backoff(attempts) ==
    Min((Ms(RECONNECT_DELAY_MS) * Pow(3, attempts - 1)) \div Pow(2, attempts - 1),
        Ms(MAX_RECONNECT_DELAY_MS))

----------------------------------------------------------------------------
(* Transports and timers *)

Live(e) == {t \in DOMAIN e : e[t] # "CLOSED"}

\* a closed transport nobody references delivers nothing and is forgotten
Collect(e, ref) == [t \in {u \in DOMAIN e : e[u] # "CLOSED" \/ u = ref} |-> e[t]]

FreeTransports(e) == (1..MaxTransports) \ DOMAIN e

FreeTimers(tm) == (1..MaxTimers) \ DOMAIN tm

NewTransport(e) == MinOf(FreeTransports(e))

ConnectCloseSkipped(e, ref) == e

\* connect(), first statement: if (eventSourceRef.current) eventSourceRef.current.close()
ConnectClose(e, ref) == IF ref # 0 THEN [e EXCEPT ![ref] = "CLOSED"] ELSE e

\* connect(): new EventSource(url); eventSourceRef.current = eventSource
ConnectEs(e, ref) ==
    LET closed == ConnectClose(e, ref)
        new == NewTransport(e)
    IN  Collect([t \in DOMAIN closed \cup {new} |->
                    IF t = new THEN "CONNECTING" ELSE closed[t]], new)

\* disconnect(): if (reconnectTimeoutRef.current) clearTimeout(...)
DisconnectTimers(tm, ref) ==
    IF ref # 0 THEN [i \in DOMAIN tm \ {ref} |-> tm[i]] ELSE tm

\* disconnect(): if (eventSourceRef.current) { close(); eventSourceRef.current = null }
DisconnectEs(e, ref) ==
    Collect(IF ref # 0 THEN [e EXCEPT ![ref] = "CLOSED"] ELSE e, 0)

\* window.setTimeout(connect, delay): the timer joins the pending ones
SetTimeoutGaveUp(tm, id, delay) ==
    IF delay >= Ms(MAX_RECONNECT_DELAY_MS) THEN tm
    ELSE [i \in DOMAIN tm \cup {id} |-> IF i = id THEN delay ELSE tm[i]]

SetTimeoutDropped(tm, id, delay) == tm

SetTimeout(tm, id, delay) ==
    [i \in DOMAIN tm \cup {id} |-> IF i = id THEN delay ELSE tm[i]]

\* reconnectAttemptsRef.current = 0 in onopen
AttemptsAfterOpenKept(n) == n

AttemptsAfterOpen(n) == 0

\* reconnectAttemptsRef.current = 0 in reconnect()
AttemptsAfterReconnectKept(n) == n

AttemptsAfterReconnect(n) == 0

----------------------------------------------------------------------------
(* Frames and the dispatch registry *)

Handlers == {"hA", "hB", "hC"}

ClientHandlers == {"hA", "hB"}

\* the kinds consumers subscribe to
SubscribedKinds == {"rates_updated", "alert_triggered"}

RawPayloads == {"{\"count\":1}", "{\"count\":2}", "{\"count\":"}

\* JSON.parse(event.data): throws on text that is not JSON
JsonParses(raw) == raw \in {"{\"count\":1}", "{\"count\":2}"}

JsonParse(raw) == IF raw = "{\"count\":1}" THEN 1 ELSE 2

MaxInvocations == 4     \* handler invocations in one dispatch pass

Elems(q) == {q[i] : i \in 1..Len(q)}

Without(q, h) == SelectSeq(q, LAMBDA x : x # h)

RegOnPush(reg, k, h) == [reg EXCEPT ![k] = Append(@, h)]

\* on(): Set.add appends unless present
RegOn(reg, k, h) ==
    IF h \in Elems(reg[k]) THEN reg ELSE [reg EXCEPT ![k] = Append(@, h)]

\* off(): Set.delete
RegOff(reg, k, h) == [reg EXCEPT ![k] = Without(@, h)]

\* pending: the entries forEach has still to visit.  The other fields record
\* what the pass did: the handlers subscribed when it began, the calls made
\* (handler, data), the handlers that threw, those removed while still to be
\* visited, those added, and whether an exception left dispatchEvent.
IdlePass ==
    [active |-> FALSE, kind |-> "", data |-> 0, pending |-> <<>>,
     snapshot |-> <<>>, invoked |-> <<>>, threw |-> {}, skipped |-> {},
     added |-> {}, escaped |-> FALSE]

PendingAfterOffSnapshot(pend, k, passKind, h) == pend

\* Set.forEach visits, in insertion order, the entries present when it
\* reaches them: an entry deleted before its turn is not visited
PendingAfterOff(pend, k, passKind, h) ==
    IF k = passKind THEN Without(pend, h) ELSE pend

\* ... and an entry added during the iteration is visited at the end
PendingAfterOn(pend, reg, k, passKind, h) ==
    IF k = passKind /\ h \notin Elems(reg[k]) THEN Append(pend, h) ELSE pend

Calls == [op : {"on", "off"}, kind : SubscribedKinds, h : Handlers]

\* what one handler invocation does to the registry: nothing, or one call
CallSeqs == {<<>>} \cup {<<c>> : c \in Calls}

\* the registry and the running pass after one on()/off() made by a handler
ApplyCall(st, c) ==
    IF c.op = "on"
    THEN [reg |-> RegOn(st.reg, c.kind, c.h),
          p |-> [st.p EXCEPT
                   !.pending = PendingAfterOn(@, st.reg, c.kind, st.p.kind, c.h),
                   !.added = IF c.kind = st.p.kind /\ c.h \notin Elems(st.reg[c.kind])
                             THEN @ \cup {c.h} ELSE @]]
    ELSE [reg |-> RegOff(st.reg, c.kind, c.h),
          p |-> [st.p EXCEPT
                   !.pending = PendingAfterOff(@, c.kind, st.p.kind, c.h),
                   !.skipped = IF c.kind = st.p.kind /\ c.h \in Elems(st.p.pending)
                               THEN @ \cup {c.h} ELSE @]]

ClientCallSeqs == {cs \in CallSeqs : \A i \in 1..Len(cs) : cs[i].h \in ClientHandlers}

RECURSIVE ApplyCalls(_, _)
ApplyCalls(st, cs) ==
    IF cs = <<>> THEN st ELSE ApplyCalls(ApplyCall(st, Head(cs)), Tail(cs))

HandlerThrewUncaught(p, h) ==
    [p EXCEPT !.threw = @ \cup {h}, !.pending = <<>>, !.escaped = TRUE]

\* try { handler(data) } catch (e) { console.error(...) }: the pass goes on
HandlerThrew(p, h) == [p EXCEPT !.threw = @ \cup {h}]

----------------------------------------------------------------------------
(* Initial state: the hook's first render, before its effect runs *)

(* The connection as a consumer can see it.  The hook keeps no state name:  *)
(* the state is read off isConnected, the pending timers and the transport *)
(* held.                                                                   *)

ConnState ==
    IF isConnected THEN "Open"
    ELSE IF DOMAIN timers # {} THEN "Reconnecting"
    ELSE IF eventSourceRef # 0 /\ es[eventSourceRef] = "CONNECTING" THEN "Connecting"
    ELSE IF scope = "init" THEN "Idle"
    ELSE "Closed"

\* the operation that ran and the state it left, appended when recording
Observe ==
    /\ recording => Len(observed) < MaxObserved
    /\ observed' = IF recording
                   THEN Append(observed, [op |-> lastOp', state |-> ConnState'])
                   ELSE observed
    /\ UNCHANGED recording

----------------------------------------------------------------------------
(* Browser notifications (useNotification) and the currency consumer *)

NotificationPermission == {"default", "granted", "denied"}

RequestOutcomes == NotificationPermission \cup {"rejects"}

AlertIds == {7, 8}

\* two logical alert_triggered events; a duplicate delivery repeats one
AlertEvents == {[event_id |-> 1, alert_id |-> 7], [event_id |-> 2, alert_id |-> 8]}

StoredValues == {"none", "true", "false", "garbage"}

\* cacheUtils.local.getBool: null unless the text is 'true' or 'false'
GetBool(raw) == IF raw = "true" THEN "true" ELSE IF raw = "false" THEN "false" ELSE "null"

InitialSettingOff(raw) == GetBool(raw) = "true"

\* useState(() => { saved = getBool(...); if (saved === null) return true; return saved })
InitialSetting(raw) == IF GetBool(raw) = "null" THEN TRUE ELSE GetBool(raw) = "true"

\* the handler closures created by the g-th run of the subscription effect;
\* those of the run before the last are garbage once its cleanup has run
ConsumerRefs(g) ==
    IF g = 1 THEN [rates |-> "handleRatesUpdated1", alert |-> "handleAlertTriggered1"]
    ELSE [rates |-> "handleRatesUpdated2", alert |-> "handleAlertTriggered2"]

EffectCleanupNone(reg, refs) == reg

\* return () => { off('rates_updated', ...); off('alert_triggered', ...) }
EffectCleanup(reg, refs) ==
    RegOff(RegOff(reg, "rates_updated", refs.rates), "alert_triggered", refs.alert)

\* on('rates_updated', handleRatesUpdated); on('alert_triggered', handleAlertTriggered)
EffectSubscribe(reg, refs) ==
    RegOn(RegOn(reg, "rates_updated", refs.rates), "alert_triggered", refs.alert)

NoRefresh == [active |-> FALSE, captured |-> FALSE]

Clock == {1, 2}

\* tag: `alert-${alert.alert_id}-${Date.now()}`
Tag(alert_id, now) == <<"alert", alert_id, now>>

GenericTag == <<"tag">>

SummaryKey == <<"currency", "summary">>

\* requests: the notify() calls made; created: the Notification objects
\* constructed; invalidated: the invalidateQueries calls made; returned: the
\* value handed back ("throws" for an exception); failed: the browser call
\* inside threw or rejected
NoEffect ==
    [alert_id |-> 0, requests |-> <<>>, created |-> <<>>, invalidated |-> <<>>,
     returned |-> "none", failed |-> FALSE]

NotifyOutcomeUncaught(supported, perm, ctorThrows) ==
    IF ~supported \/ perm # "granted" THEN "null"
    ELSE IF ctorThrows THEN "throws" ELSE "notification"

\* notify(): null unless supported and granted; try { new Notification(...) }
\* catch { return null }
NotifyOutcome(supported, perm, ctorThrows) ==
    IF ~supported \/ perm # "granted" THEN "null"
    ELSE IF ctorThrows THEN "null" ELSE "notification"

\* requestPermission(): false when unsupported or when the request throws or
\* rejects, else result === 'granted'
RequestPermissionOutcome(supported, outcome) ==
    IF ~supported THEN "false"
    ELSE IF outcome = "rejects" THEN "false"
    ELSE IF outcome = "granted" THEN "true" ELSE "false"

----------------------------------------------------------------------------

InitSSE ==
    /\ scope = "init"
    /\ isConnected = FALSE
    /\ eventSourceRef = 0
    /\ es = <<>>
    /\ reconnectAttemptsRef = 0
    /\ reconnectTimeoutRef = 0
    /\ timers = <<>>
    /\ handlersRef = [k \in Kinds |-> <<>>]
    /\ pass = IdlePass
    /\ lastOp = "init"
    /\ consecutiveErrors = 0
    /\ since = "start"
    /\ observed = <<>>
    /\ promises = 0
    /\ unhandled = FALSE

\* useNotification's initial state (useNotification.ts:57-62) and the
\* consumer's refs (part_004:48-58)
InitNotification ==
    /\ isSupported \in BOOLEAN
    /\ permission \in (IF isSupported THEN NotificationPermission ELSE {"unsupported"})
    /\ isGrantedRef = FALSE
    /\ stored \in StoredValues
    /\ notificationEnabledRef = InitialSetting(stored)
    /\ inFlight = {}
    /\ issued = 0
    /\ cache = 0
    /\ notifications = {}
    /\ consumer = [state |-> "init", gen |-> 0]
    /\ refresh = NoRefresh
    /\ effect = NoEffect

\* the stream's specifications run in one browser: notifications supported,
\* permission not yet asked for, the setting stored as off
Init ==
    /\ InitSSE
    /\ recording = FALSE
    /\ InitNotification
    /\ isSupported
    /\ permission = "default"
    /\ stored = "false"

InitObs ==
    /\ InitSSE
    /\ recording = TRUE
    /\ InitNotification
    /\ isSupported
    /\ permission = "default"
    /\ stored = "false"

InitClient ==
    /\ InitSSE
    /\ recording = FALSE
    /\ InitNotification

Quiet == ~pass.active

CanConnect == FreeTransports(es) # {}

----------------------------------------------------------------------------
(* Lifecycle: useEffect(() => { if (enabled) connect(); return disconnect }) *)

\* first run of the effect
Mount(enabled) ==
    /\ scope = "init"
    /\ Quiet
    /\ CanConnect
    /\ scope' = IF enabled THEN "enabled" ELSE "disabled"
    /\ es' = IF enabled THEN ConnectEs(es, eventSourceRef) ELSE es
    /\ eventSourceRef' = IF enabled THEN NewTransport(es) ELSE eventSourceRef
    /\ lastOp' = IF enabled THEN "connect" ELSE "idle"
    /\ UNCHANGED <<isConnected, reconnectAttemptsRef, reconnectTimeoutRef, timers,
                   handlersRef, pass, clientVars, asyncVars, consecutiveErrors, since>>
    /\ Observe

\* a dependency of the effect changed: cleanup (disconnect), then the effect again
Rerender(enabled) ==
    /\ scope \in {"enabled", "disabled"}
    /\ Quiet
    /\ scope' = IF enabled THEN "enabled" ELSE "disabled"
    /\ LET es1 == DisconnectEs(es, eventSourceRef)
       IN  /\ es' = IF enabled THEN ConnectEs(es1, 0) ELSE es1
           /\ eventSourceRef' = IF enabled THEN NewTransport(es1) ELSE 0
    /\ timers' = DisconnectTimers(timers, reconnectTimeoutRef)
    /\ reconnectTimeoutRef' = 0
    /\ isConnected' = FALSE
    /\ lastOp' = IF enabled THEN "connect" ELSE "disconnect"
    /\ UNCHANGED <<reconnectAttemptsRef, handlersRef, pass, clientVars, asyncVars, consecutiveErrors, since>>
    /\ Observe

\* unmount: cleanup only
Unmount ==
    /\ scope \in {"enabled", "disabled"}
    /\ Quiet
    /\ scope' = "unmounted"
    /\ es' = DisconnectEs(es, eventSourceRef)
    /\ eventSourceRef' = 0
    /\ timers' = DisconnectTimers(timers, reconnectTimeoutRef)
    /\ reconnectTimeoutRef' = 0
    /\ isConnected' = FALSE
    /\ lastOp' = "disconnect"
    /\ UNCHANGED <<reconnectAttemptsRef, handlersRef, pass, clientVars, asyncVars, consecutiveErrors, since>>
    /\ Observe

\* reconnect(): reconnectAttemptsRef.current = 0; connect().  The function is
\* handed to the consumer, whose refresh() may still call it after the effect's
\* cleanup has run
Reconnect ==
    /\ scope \in {"enabled", "disabled", "unmounted"}
    /\ Quiet
    /\ CanConnect
    /\ reconnectAttemptsRef' = AttemptsAfterReconnect(reconnectAttemptsRef)
    /\ es' = ConnectEs(es, eventSourceRef)
    /\ eventSourceRef' = NewTransport(es)
    /\ lastOp' = "reconnect"
    /\ consecutiveErrors' = 0
    /\ since' = "reconnect"
    /\ UNCHANGED <<scope, isConnected, reconnectTimeoutRef, timers, handlersRef, pass, clientVars, asyncVars>>
    /\ Observe

----------------------------------------------------------------------------
(* Transport and timer callbacks *)

\* eventSource.onopen
OnOpen(t) ==
    /\ Quiet
    /\ t \in DOMAIN es
    /\ es[t] = "CONNECTING"
    /\ es' = [es EXCEPT ![t] = "OPEN"]
    /\ reconnectAttemptsRef' = AttemptsAfterOpen(reconnectAttemptsRef)
    /\ isConnected' = TRUE
    /\ lastOp' = "open"
    /\ consecutiveErrors' = 0
    /\ since' = "open"
    /\ UNCHANGED <<scope, eventSourceRef, reconnectTimeoutRef, timers, handlersRef, pass, clientVars, asyncVars>>
    /\ Observe

\* eventSource.onerror; the transport either retries by itself (readyState
\* CONNECTING) or has failed for good (readyState CLOSED)
OnError(t, fatal) ==
    /\ Quiet
    /\ t \in DOMAIN es
    /\ es[t] # "CLOSED"
    /\ reconnectAttemptsRef < MaxAttempts
    /\ FreeTimers(timers) # {}
    /\ es' = [es EXCEPT ![t] = IF fatal THEN "CLOSED" ELSE "CONNECTING"]
    /\ isConnected' = FALSE
    /\ reconnectAttemptsRef' = reconnectAttemptsRef + 1
    /\ LET id == MinOf(FreeTimers(timers))
       IN  /\ timers' = SetTimeout(timers, id, Backoff(reconnectAttemptsRef + 1))
           /\ reconnectTimeoutRef' = id
    /\ lastOp' = "error"
    /\ consecutiveErrors' = consecutiveErrors + 1
    /\ UNCHANGED <<scope, eventSourceRef, handlersRef, pass, clientVars, asyncVars, since>>
    /\ Observe

\* a pending timer fires and runs connect()
TimerFire(id) ==
    /\ Quiet
    /\ id \in DOMAIN timers
    /\ CanConnect
    /\ timers' = [i \in DOMAIN timers \ {id} |-> timers[i]]
    /\ es' = ConnectEs(es, eventSourceRef)
    /\ eventSourceRef' = NewTransport(es)
    /\ lastOp' = "timer"
    /\ UNCHANGED <<scope, isConnected, reconnectAttemptsRef, reconnectTimeoutRef,
                   handlersRef, pass, clientVars, asyncVars, consecutiveErrors, since>>
    /\ Observe

----------------------------------------------------------------------------
(* Registry operations made by consumers between callbacks *)

On(k, h) ==
    /\ Quiet
    /\ handlersRef' = RegOn(handlersRef, k, h)
    /\ lastOp' = IF h \in Elems(handlersRef[k]) THEN "on again" ELSE "on"
    /\ UNCHANGED <<connVars, clientVars, asyncVars, pass>>

Off(k, h) ==
    /\ Quiet
    /\ handlersRef' = RegOff(handlersRef, k, h)
    /\ lastOp' = "off"
    /\ UNCHANGED <<connVars, clientVars, asyncVars, pass>>

----------------------------------------------------------------------------
(* eventSource.addEventListener(eventType, ...): parse, then dispatch *)

BeginPassAllKinds(reg, kind, data) ==
    [IdlePass EXCEPT !.active = TRUE, !.kind = kind, !.data = data,
                     !.pending = reg["connected"] \o reg["rates_updated"] \o
                                reg["alert_triggered"],
                     !.snapshot = reg[kind]]

\* const handlers = handlersRef.current.get(eventType); handlers.forEach(...)
BeginPass(reg, kind, data) ==
    [IdlePass EXCEPT !.active = TRUE, !.kind = kind, !.data = data,
                     !.pending = reg[kind], !.snapshot = reg[kind]]

DispatchUnparsed(reg, kind) == BeginPass(reg, kind, 0)

\* catch (e) { console.error(`SSE parse error ...`) }: the frame is dropped
DropFrame(reg, kind) == IdlePass

Dropped ==
    [connected |-> "dropped connected", rates_updated |-> "dropped rates_updated",
     alert_triggered |-> "dropped alert_triggered"]

Frame(t, kind, raw) ==
    /\ Quiet
    /\ t \in DOMAIN es
    /\ es[t] = "OPEN"
    /\ IF JsonParses(raw)
       THEN /\ pass' = BeginPass(handlersRef, kind, JsonParse(raw))
            /\ lastOp' = "frame"
       ELSE /\ pass' = DropFrame(handlersRef, kind)
            /\ lastOp' = Dropped[kind]
    /\ UNCHANGED <<connVars, clientVars, asyncVars, handlersRef>>

\* a frame whose event name is UnknownKind: it reaches a listener only if one
\* was added for that name
FrameOther(t, raw) ==
    /\ Quiet
    /\ t \in DOMAIN es
    /\ es[t] = "OPEN"
    /\ pass' = IF UnknownKind \in Listened
               THEN IF JsonParses(raw)
                    THEN BeginPass(handlersRef, UnknownKind, JsonParse(raw))
                    ELSE DropFrame(handlersRef, UnknownKind)
               ELSE pass
    /\ lastOp' = IF JsonParses(raw) THEN "unlistened frame" ELSE "unlistened bad frame"
    /\ UNCHANGED <<connVars, clientVars, asyncVars, handlersRef>>

\* forEach calls the next handler; the handler makes its on()/off() calls and
\* returns or throws
Invoke(cs, throws) ==
    /\ pass.active
    /\ pass.pending # <<>>
    /\ Len(pass.invoked) < MaxInvocations
    /\ LET h == Head(pass.pending)
           p0 == [pass EXCEPT !.pending = Tail(@),
                              !.invoked = Append(@, <<h, pass.data>>)]
           st == ApplyCalls([reg |-> handlersRef, p |-> p0], cs)
       IN  /\ handlersRef' = st.reg
           /\ pass' = IF throws THEN HandlerThrew(st.p, h) ELSE st.p
    /\ lastOp' = "handler"
    /\ UNCHANGED <<connVars, clientVars, asyncVars>>

\* the handler called removes itself from the kind being dispatched and
\* subscribes itself again: off(kind, self); on(kind, self)
InvokeResubscribe ==
    /\ pass.active
    /\ pass.pending # <<>>
    /\ LET self == Head(pass.pending)
       IN  Invoke(<<[op |-> "off", kind |-> pass.kind, h |-> self],
                    [op |-> "on", kind |-> pass.kind, h |-> self]>>, FALSE)

\* forEach has visited every entry: dispatchEvent and the listener return
DispatchReturn ==
    /\ pass.active
    /\ pass.pending = <<>>
    /\ pass' = IdlePass
    /\ lastOp' = "dispatched"
    /\ UNCHANGED <<connVars, clientVars, asyncVars, handlersRef>>

----------------------------------------------------------------------------
(* A handler that returns a promise (an async function, as the consumer's  *)
(* handleRatesUpdated is): handler(data) returns at once, inside the try   *)

InvokeAsync ==
    /\ pass.active
    /\ pass.pending # <<>>
    /\ Len(pass.invoked) < MaxInvocations
    /\ promises < MaxPromises
    /\ pass' = [pass EXCEPT !.pending = Tail(@),
                            !.invoked = Append(@, <<Head(pass.pending), pass.data>>)]
    /\ promises' = promises + 1
    /\ lastOp' = "handler"
    /\ UNCHANGED <<connVars, clientVars, handlersRef, unhandled>>

\* the promise settles once the listener has returned; dispatchEvent kept no
\* reference to it and attached no rejection handler
PromiseSettle(rejects) ==
    /\ Quiet
    /\ promises > 0
    /\ promises' = promises - 1
    /\ unhandled' = (unhandled \/ rejects)
    /\ lastOp' = IF rejects THEN "rejected" ELSE "resolved"
    /\ UNCHANGED <<connVars, clientVars, handlersRef, pass>>

----------------------------------------------------------------------------
(* useNotification *)

\* requestPermission()
RequestPermission(outcome) ==
    /\ permission' = IF isSupported /\ outcome # "rejects" THEN outcome ELSE permission
    /\ effect' = [NoEffect EXCEPT
                    !.returned = RequestPermissionOutcome(isSupported, outcome),
                    !.failed = (isSupported /\ outcome = "rejects")]
    /\ lastOp' = "requestPermission"
    /\ UNCHANGED <<connVars, asyncVars, handlersRef, pass, isSupported, isGrantedRef,
                   settingVars, cacheVars, notifications, consumer, refresh>>

\* the permission status' change listener: setPermission(Notification.permission)
PermissionChange(p) ==
    /\ isSupported
    /\ p # permission
    /\ permission' = p
    /\ effect' = NoEffect
    /\ lastOp' = "permission change"
    /\ UNCHANGED <<connVars, asyncVars, handlersRef, pass, isSupported, isGrantedRef,
                   settingVars, cacheVars, notifications, consumer, refresh>>

\* notify(options), called by any consumer
Notify(ctorThrows) ==
    /\ LET r == NotifyOutcome(isSupported, permission, ctorThrows)
       IN  effect' = [NoEffect EXCEPT
                        !.requests = <<GenericTag>>,
                        !.created = IF r = "notification" THEN <<GenericTag>> ELSE <<>>,
                        !.returned = r,
                        !.failed = (isSupported /\ permission = "granted" /\ ctorThrows)]
    /\ lastOp' = "notify"
    /\ UNCHANGED <<connVars, asyncVars, handlersRef, pass, notifVars, isGrantedRef,
                   settingVars, cacheVars, notifications, consumer, refresh>>

----------------------------------------------------------------------------
(* useCurrencyData *)

\* the effects of one commit: the subscription effect (cleanup of the run
\* before, then on() of this run's closures) and isGrantedRef.current =
\* isGranted.  The first run is the mount.
ConsumerEffects ==
    /\ consumer.state \in {"init", "mounted"}
    /\ LET g == IF consumer.gen = 1 THEN 2 ELSE 1
           reg == IF consumer.state = "mounted"
                  THEN EffectCleanup(handlersRef, ConsumerRefs(consumer.gen))
                  ELSE handlersRef
       IN  /\ handlersRef' = EffectSubscribe(reg, ConsumerRefs(g))
           /\ consumer' = [state |-> "mounted", gen |-> g]
    /\ isGrantedRef' = (permission = "granted")
    /\ effect' = NoEffect
    /\ lastOp' = "effects"
    /\ UNCHANGED <<connVars, asyncVars, pass, notifVars, settingVars, cacheVars,
                   notifications, refresh>>

\* unmount: the subscription effect's cleanup
ConsumerUnmount ==
    /\ consumer.state = "mounted"
    /\ handlersRef' = EffectCleanup(handlersRef, ConsumerRefs(consumer.gen))
    /\ consumer' = [consumer EXCEPT !.state = "unmounted"]
    /\ effect' = NoEffect
    /\ lastOp' = "consumer unmount"
    /\ UNCHANGED <<connVars, asyncVars, pass, notifVars, isGrantedRef, settingVars,
                   cacheVars, notifications, refresh>>

\* toggleNotificationEnabled: setBool(key, next); notificationEnabledRef.current = next
ToggleNotificationEnabled ==
    /\ notificationEnabledRef' = ~notificationEnabledRef
    /\ stored' = IF notificationEnabledRef THEN "false" ELSE "true"
    /\ effect' = NoEffect
    /\ lastOp' = "toggle"
    /\ UNCHANGED <<connVars, asyncVars, handlersRef, pass, notifVars, isGrantedRef,
                   cacheVars, notifications, consumer, refresh>>

\* one alert_triggered event dispatched: every handler subscribed runs
\* handleAlertTriggered(alert), which is sendAlertNotification(alert) and
\* nothing else.  The notify it calls is the closure of the last effect run,
\* whose permission is 'granted' whenever isGrantedRef is true; a notification
\* with the tag of one on display replaces it.
AlertTriggered(ev, now, ctorThrows) ==
    /\ handlersRef["alert_triggered"] # <<>>
    /\ LET n == Len(handlersRef["alert_triggered"])
           calls == isGrantedRef /\ notificationEnabledRef
           r == NotifyOutcome(isSupported, "granted", ctorThrows)
           tag == Tag(ev.alert_id, now)
           shown == IF calls /\ r = "notification"
                    THEN {x \in notifications : x.tag # tag} \cup
                         {[event_id |-> ev.event_id, tag |-> tag]}
                    ELSE notifications
       IN  /\ Cardinality(shown) <= MaxNotifications
           /\ notifications' = shown
           /\ effect' = [NoEffect EXCEPT
                           !.alert_id = ev.alert_id,
                           !.requests = IF calls THEN [i \in 1..n |-> tag] ELSE <<>>,
                           !.created = IF calls /\ r = "notification"
                                       THEN [i \in 1..n |-> tag] ELSE <<>>]
    /\ lastOp' = "alert_triggered"
    /\ UNCHANGED <<connVars, asyncVars, handlersRef, pass, notifVars, isGrantedRef,
                   settingVars, cacheVars, consumer, refresh>>

\* one rates_updated event dispatched: every handler subscribed runs
\* handleRatesUpdated up to its await; each getRates(false) is under way
RatesUpdated ==
    /\ handlersRef["rates_updated"] # <<>>
    /\ LET n == Len(handlersRef["rates_updated"])
       IN  /\ issued + n <= MaxRequests
           /\ Cardinality(inFlight) + n <= MaxInFlight
           /\ inFlight' = inFlight \cup ((issued + 1)..(issued + n))
           /\ issued' = issued + n
    /\ effect' = NoEffect
    /\ lastOp' = "rates_updated"
    /\ UNCHANGED <<connVars, asyncVars, handlersRef, pass, notifVars, isGrantedRef,
                   settingVars, cache, notifications, consumer, refresh>>

\* a getRates settles and its handler resumes: setQueryData(rates, data) and
\* invalidateQueries(['currency','summary']), or the catch's console.warn
GetRatesSettle(id, ok) ==
    /\ id \in inFlight
    /\ inFlight' = inFlight \ {id}
    /\ cache' = IF ok THEN id ELSE cache
    /\ effect' = [NoEffect EXCEPT !.invalidated = IF ok THEN <<SummaryKey>> ELSE <<>>]
    /\ lastOp' = IF ok THEN "rates refreshed" ELSE "rates failed"
    /\ UNCHANGED <<connVars, asyncVars, handlersRef, pass, notifVars, isGrantedRef,
                   settingVars, issued, notifications, consumer, refresh>>

\* refresh() up to its await: the callback's isConnected is the value of the
\* render that created it
RefreshStart ==
    /\ scope = "enabled"
    /\ ~refresh.active
    /\ refresh' = [active |-> TRUE, captured |-> isConnected]
    /\ lastOp' = "refresh"
    /\ UNCHANGED <<connVars, asyncVars, handlersRef, pass, notifVars, isGrantedRef,
                   settingVars, cacheVars, notifications, consumer, effect>>

\* getRates(true) settles: on success, setQueryData, invalidateQueries and
\* if (!isConnected) reconnect(); on failure, setError
RefreshSettle(ok) ==
    /\ refresh.active
    /\ Quiet
    /\ refresh' = NoRefresh
    /\ IF ok /\ ~refresh.captured
       THEN /\ CanConnect
            /\ reconnectAttemptsRef' = AttemptsAfterReconnect(reconnectAttemptsRef)
            /\ es' = ConnectEs(es, eventSourceRef)
            /\ eventSourceRef' = NewTransport(es)
            /\ lastOp' = "refresh reconnect"
            /\ consecutiveErrors' = 0
            /\ since' = "reconnect"
            /\ UNCHANGED <<scope, isConnected, reconnectTimeoutRef, timers>>
            /\ Observe
       ELSE /\ lastOp' = "refresh done"
            /\ UNCHANGED connVars
    /\ UNCHANGED <<asyncVars, handlersRef, pass, notifVars, isGrantedRef, settingVars,
                   cacheVars, notifications, consumer, effect>>

----------------------------------------------------------------------------

(* The connection manager alone: lifecycle, transport and timer callbacks *)

NextConn ==
    \/ \E enabled \in BOOLEAN : Mount(enabled)
    \/ \E enabled \in BOOLEAN : Rerender(enabled)
    \/ Unmount
    \/ Reconnect
    \/ \E t \in 1..MaxTransports : OnOpen(t)
    \/ \E t \in 1..MaxTransports, fatal \in BOOLEAN : OnError(t, fatal)
    \/ \E id \in 1..MaxTimers : TimerFire(id)

SpecConn == Init /\ [][NextConn]_vars

(* The dispatch registry on a stream that stays up *)

NextReg ==
    \/ Mount(TRUE)
    \/ \E t \in 1..MaxTransports : OnOpen(t)
    \/ \E k \in SubscribedKinds, h \in Handlers : On(k, h)
    \/ \E k \in SubscribedKinds, h \in Handlers : Off(k, h)
    \/ \E t \in 1..MaxTransports, k \in SSEEventType, raw \in RawPayloads : Frame(t, k, raw)
    \/ \E cs \in CallSeqs, throws \in BOOLEAN : Invoke(cs, throws)
    \/ DispatchReturn

SpecReg == Init /\ [][NextReg]_vars

(* The whole client, with few handlers and a short run of errors *)

Next ==
    \/ \E enabled \in BOOLEAN : Mount(enabled)
    \/ \E enabled \in BOOLEAN : Rerender(enabled)
    \/ Unmount
    \/ Reconnect
    \/ \E t \in 1..MaxTransports : OnOpen(t)
    \/ \E t \in 1..MaxTransports, fatal \in BOOLEAN :
          /\ reconnectAttemptsRef < MaxAttemptsClient
          /\ Cardinality(DOMAIN timers) < MaxTimersClient
          /\ OnError(t, fatal)
    \/ \E id \in 1..MaxTimers : TimerFire(id)
    \/ \E k \in SubscribedKinds, h \in ClientHandlers : On(k, h)
    \/ \E k \in SubscribedKinds, h \in ClientHandlers : Off(k, h)
    \/ \E t \in 1..MaxTransports, k \in SSEEventType, raw \in RawPayloads : Frame(t, k, raw)
    \/ \E cs \in ClientCallSeqs, throws \in BOOLEAN : Invoke(cs, throws)
    \/ DispatchReturn

Spec == Init /\ [][Next]_vars

(* The connection manager with the event loop's guarantee that a pending    *)
(* timer's callback is eventually run                                      *)

FairConn == SpecConn /\ WF_vars(\E id \in 1..MaxTimers : TimerFire(id))

(* The connection manager watched from its construction: every operation's   *)
(* resulting state is recorded                                              *)

NextObs ==
    \/ \E enabled \in BOOLEAN : Mount(enabled)
    \/ Unmount
    \/ Reconnect
    \/ \E t \in 1..MaxTransports : OnOpen(t)
    \/ \E t \in 1..MaxTransports, fatal \in BOOLEAN : OnError(t, fatal)
    \/ \E id \in 1..MaxTimers : TimerFire(id)

SpecObs == InitObs /\ [][NextObs]_vars

(* The registry with handlers that may return promises *)

NextAsync ==
    \/ Mount(TRUE)
    \/ \E t \in 1..MaxTransports : OnOpen(t)
    \/ \E k \in SubscribedKinds, h \in ClientHandlers : On(k, h)
    \/ \E k \in SubscribedKinds, h \in ClientHandlers : Off(k, h)
    \/ \E t \in 1..MaxTransports, k \in SSEEventType, raw \in RawPayloads : Frame(t, k, raw)
    \/ \E cs \in ClientCallSeqs, throws \in BOOLEAN : Invoke(cs, throws)
    \/ InvokeAsync
    \/ InvokeResubscribe
    \/ \E rejects \in BOOLEAN : PromiseSettle(rejects)
    \/ DispatchReturn

SpecAsync == Init /\ [][NextAsync]_vars

(* The registry and the frame listeners with a kind outside SSEEventType *)

NextKinds ==
    \/ Mount(TRUE)
    \/ \E t \in 1..MaxTransports : OnOpen(t)
    \/ \E k \in Kinds, h \in ClientHandlers : On(k, h)
    \/ \E k \in Kinds, h \in ClientHandlers : Off(k, h)
    \/ \E t \in 1..MaxTransports, k \in SSEEventType, raw \in RawPayloads : Frame(t, k, raw)
    \/ \E t \in 1..MaxTransports, raw \in RawPayloads : FrameOther(t, raw)
    \/ \E cs \in ClientCallSeqs, throws \in BOOLEAN : Invoke(cs, throws)
    \/ DispatchReturn

SpecKinds == Init /\ [][NextKinds]_vars

(* The currency consumer's alert handler and the notification surface *)

NextClient ==
    \/ \E outcome \in RequestOutcomes : RequestPermission(outcome)
    \/ \E p \in NotificationPermission : PermissionChange(p)
    \/ \E ctorThrows \in BOOLEAN : Notify(ctorThrows)
    \/ ConsumerEffects
    \/ ConsumerUnmount
    \/ ToggleNotificationEnabled
    \/ \E ev \in AlertEvents, now \in Clock, ctorThrows \in BOOLEAN :
          AlertTriggered(ev, now, ctorThrows)

SpecClient == InitClient /\ [][NextClient]_vars

(* The currency consumer's rates handler and the rates cache entry *)

NextRates ==
    \/ ConsumerEffects
    \/ ConsumerUnmount
    \/ RatesUpdated
    \/ \E id \in 1..MaxRequests, ok \in BOOLEAN : GetRatesSettle(id, ok)

SpecRates == Init /\ [][NextRates]_vars

(* The consumer's manual refresh against the connection manager *)

NextRefresh ==
    \/ Mount(TRUE)
    \/ Unmount
    \/ \E t \in 1..MaxTransports : OnOpen(t)
    \/ \E t \in 1..MaxTransports, fatal \in BOOLEAN :
          /\ reconnectAttemptsRef < MaxAttemptsClient
          /\ Cardinality(DOMAIN timers) < MaxTimersClient
          /\ OnError(t, fatal)
    \/ \E id \in 1..MaxTimers : TimerFire(id)
    \/ RefreshStart
    \/ \E ok \in BOOLEAN : RefreshSettle(ok)

SpecRefresh == Init /\ [][NextRefresh]_vars

----------------------------------------------------------------------------
(* Properties *)

Count(q, x) == Cardinality({i \in 1..Len(q) : q[i] = x})

InvokedHandlers == [i \in 1..Len(pass.invoked) |-> pass.invoked[i][1]]

\* forEach has visited every entry and is about to return
PassDone == pass.active /\ pass.pending = <<>>

ScheduledDelay == timers[reconnectTimeoutRef]

\* C1: at most one transport created by the hook is un-closed, and it is the
\* one held in eventSourceRef, whatever the interleaving of mount, reconnect(),
\* timer firings, open/error events and disconnect().
C1_OneLiveTransport ==
    /\ Cardinality(Live(es)) <= 1
    /\ \A t \in Live(es) : t = eventSourceRef

\* a timer-driven connect() replaced a transport that had opened
C1_Witness ==
    /\ lastOp = "timer"
    /\ isConnected
    /\ Live(es) = {eventSourceRef}

\* C2: reconnect() with a backoff timer pending cancels that timer, so the
\* timer held in reconnectTimeoutRef is no longer pending when it returns and
\* cannot run a second connect().
C2_ReconnectCancelsTimer ==
    lastOp = "reconnect" => reconnectTimeoutRef \notin DOMAIN timers

\* C3: when disconnect() has returned no reconnection timer is pending, no
\* transport is un-closed, the transport reference is cleared and isConnected
\* is false.
C3_DisconnectLeavesNothing ==
    lastOp = "disconnect" =>
        /\ DOMAIN timers = {}
        /\ Live(es) = {}
        /\ eventSourceRef = 0
        /\ ~isConnected

C5_OpenResetsBackoff ==
    /\ lastOp = "open" => reconnectAttemptsRef = 0
    /\ (lastOp = "error" /\ since = "open" /\ consecutiveErrors = 1) =>
           ScheduledDelay = Ms(RECONNECT_DELAY_MS)

\* the first error after an open, with the timer of an error before that open
\* still pending
C5_Witness ==
    /\ lastOp = "error"
    /\ since = "open"
    /\ consecutiveErrors = 1
    /\ Cardinality(DOMAIN timers) = 2

\* C6 as stated: the n-th consecutive error passes 3000, 4500, 6750, 10125,
\* 15188, 22781, 30000, 30000 ms to the timer.
StatedDelays == <<3000, 4500, 6750, 10125, 15188, 22781, 30000, 30000>>

C6_StatedDelays ==
    (lastOp = "error" /\ consecutiveErrors \in 1..Len(StatedDelays)) =>
        ScheduledDelay = Ms(StatedDelays[consecutiveErrors])

\* C6 as amended: the n-th consecutive error passes 3000, 4500, 6750, 10125,
\* 15187.5, 22781.25 ms (unrounded; in eighths of a millisecond below) for
\* n = 1..6 and 30000 ms from the 7th on.
ExactDelays == <<24000, 36000, 54000, 81000, 121500, 182250>>

C6_ExactDelays ==
    lastOp = "error" =>
        ScheduledDelay = IF consecutiveErrors <= Len(ExactDelays)
                         THEN ExactDelays[consecutiveErrors]
                         ELSE Ms(MAX_RECONNECT_DELAY_MS)

\* the 7th consecutive error, the first whose delay is the cap
C6_Witness ==
    /\ lastOp = "error"
    /\ consecutiveErrors = 7
    /\ ScheduledDelay = Ms(MAX_RECONNECT_DELAY_MS)

\* C7: reconnect() leaves the attempt counter at 0, and the first error after
\* it schedules the base delay of 3000 ms.
C7_ReconnectResetsBackoff ==
    /\ lastOp = "reconnect" => reconnectAttemptsRef = 0
    /\ (lastOp = "error" /\ since = "reconnect" /\ consecutiveErrors = 1) =>
           ScheduledDelay = Ms(RECONNECT_DELAY_MS)

\* the first error after a reconnect(), with the timer of an earlier error
\* still pending
C7_Witness ==
    /\ lastOp = "error"
    /\ since = "reconnect"
    /\ consecutiveErrors = 1
    /\ Cardinality(DOMAIN timers) = 2

\* C8: in a pass in which some handler threw (and no handler changed the set
\* being iterated), every handler subscribed to the kind was invoked exactly
\* once, in order, with the frame's payload, and nothing escaped dispatchEvent.
C8_ThrowIsIsolated ==
    (PassDone /\ pass.threw # {} /\ pass.skipped = {} /\ pass.added = {}) =>
        /\ InvokedHandlers = pass.snapshot
        /\ \A i \in 1..Len(pass.invoked) : pass.invoked[i][2] = pass.data
        /\ ~pass.escaped

\* the first of three handlers threw and the other two were invoked
C8_Witness ==
    /\ PassDone
    /\ Len(pass.snapshot) = 3
    /\ pass.threw = {pass.snapshot[1]}
    /\ InvokedHandlers = pass.snapshot
    /\ pass.data = 2

DroppedOps == {Dropped[k] : k \in SSEEventType}

\* C10: a frame whose payload does not parse changes neither isConnected, the
\* transports, the attempt counter, the timers nor the registry and starts no
\* pass (no handler is invoked); the next frame that parses is dispatched to
\* the handlers subscribed to its kind.
C10_BadFrameDropped ==
    [][/\ lastOp' \in DroppedOps =>
            /\ UNCHANGED <<isConnected, es, eventSourceRef, reconnectAttemptsRef,
                           reconnectTimeoutRef, timers, handlersRef>>
            /\ ~pass'.active
            /\ pass'.invoked = <<>>
       /\ (lastOp \in DroppedOps /\ lastOp' = "frame") =>
            /\ pass'.active
            /\ pass'.pending = handlersRef[pass'.kind]]_vars

\* an unparsable rates_updated frame arrived with a handler subscribed to
\* the kind and a backoff timer pending
C10_Witness ==
    /\ lastOp = Dropped["rates_updated"]
    /\ handlersRef["rates_updated"] # <<>>
    /\ DOMAIN timers # {}
    /\ isConnected

\* C11: a handler that off() removed is not dispatched to until on() adds it
\* again: a step that is an off(kind, h), made between callbacks or by a
\* running handler, leaves h out of the kind's set; only a step that is an
\* on(kind, h) puts it back; and a running pass has only handlers of the
\* kind's current set still to visit.
C11_NoDispatchAfterOff ==
    /\ [](pass.active => Elems(pass.pending) \subseteq Elems(handlersRef[pass.kind]))
    /\ [][\A k \in SubscribedKinds, h \in Handlers :
            /\ (lastOp' \in {"off", "handler"} /\ handlersRef' = RegOff(handlersRef, k, h))
                   => h \notin Elems(handlersRef'[k])
            /\ (h \notin Elems(handlersRef[k]) /\ h \in Elems(handlersRef'[k]))
                   => (lastOp' \in {"on", "handler"} /\
                       handlersRef' = RegOn(handlersRef, k, h))]_vars

\* of three subscribed handlers the first removed the third during the pass:
\* the pass ended without invoking it
C11_Witness ==
    /\ PassDone
    /\ Len(pass.snapshot) = 3
    /\ pass.skipped = {pass.snapshot[3]}
    /\ pass.added = {}
    /\ InvokedHandlers = <<pass.snapshot[1], pass.snapshot[2]>>
    /\ pass.snapshot[3] \notin Elems(handlersRef[pass.kind])

\* C12: however often on(kind, h) is called a handler is in the kind's set at
\* most once, so a pass whose handlers leave the set alone invokes it exactly
\* once; and one off(kind, h) leaves no entry of it.
C12_OnIdempotent ==
    /\ [](\A k \in SSEEventType, h \in Handlers : Count(handlersRef[k], h) <= 1)
    /\ []((PassDone /\ pass.skipped = {} /\ pass.added = {}) =>
             \A h \in Elems(handlersRef[pass.kind]) : Count(InvokedHandlers, h) = 1)
    /\ [][\A k \in SubscribedKinds, h \in Handlers :
            /\ (On(k, h) /\ h \in Elems(handlersRef[k])) => handlersRef' = handlersRef
            /\ Off(k, h) => Count(handlersRef'[k], h) = 0]_vars

\* on('rates_updated', hA) was called again with hA already subscribed, and
\* hA is still the kind's only entry
C12_Witness ==
    /\ lastOp = "on again"
    /\ handlersRef["rates_updated"] = <<"hA">>
    /\ handlersRef["alert_triggered"] = <<>>

\* C13: a pass (whose handlers leave the set alone) starts from the handlers
\* subscribed to the frame's kind and invokes exactly those, in the order they
\* were added, each with the frame's payload; a handler subscribed only to
\* another kind is not invoked.
C13_DispatchAllInOrder ==
    /\ pass.active => /\ \A i \in 1..Len(pass.invoked) :
                            /\ pass.invoked[i][2] = pass.data
                            /\ pass.invoked[i][1] \in Elems(pass.snapshot) \cup pass.added
                      /\ (pass.invoked = <<>> => pass.pending = pass.snapshot)
    /\ (pass.active /\ pass.invoked = <<>>) => pass.snapshot = handlersRef[pass.kind]
    /\ (PassDone /\ pass.skipped = {} /\ pass.added = {}) =>
           InvokedHandlers = pass.snapshot

\* a rates_updated pass invoked hB then hA, in the order they subscribed, and
\* not hC, subscribed to alert_triggered only
C13_Witness ==
    /\ PassDone
    /\ pass.kind = "rates_updated"
    /\ pass.snapshot = <<"hB", "hA">>
    /\ handlersRef["alert_triggered"] = <<"hC">>
    /\ pass.invoked = <<<<"hB", 2>>, <<"hA", 2>>>>
    /\ pass.threw = {}

BackoffRetryOps ==
    <<"connect", "error", "timer", "error", "timer", "error", "timer", "open">>

ObservedOps == [i \in 1..Len(observed) |-> observed[i].op]

ObservedStates == [i \in 1..Len(observed) |-> observed[i].state]

C15_AlertInvalidatesAndNotifies ==
    lastOp = "alert_triggered" =>
        /\ Len(effect.invalidated) = 1
        /\ Len(effect.requests) = 1
        /\ effect.requests[1][2] = effect.alert_id

\* C16: the notification surface never throws: notify() returns null and
\* constructs nothing when notifications are unsupported or permission is
\* not 'granted', returns null when the constructor throws; and
\* requestPermission() resolves to false when unsupported or when the
\* browser's request fails.
C16_SurfaceNeverThrows ==
    /\ lastOp = "notify" =>
          /\ effect.returned \in {"null", "notification"}
          /\ (~isSupported \/ permission # "granted" \/ effect.failed) =>
                 (effect.returned = "null" /\ effect.created = <<>>)
    /\ lastOp = "requestPermission" =>
          /\ effect.returned \in {"true", "false"}
          /\ (~isSupported \/ effect.failed) => effect.returned = "false"

\* permission is granted and the Notification constructor threw: notify()
\* returned null
C16_Witness ==
    /\ lastOp = "notify"
    /\ permission = "granted"
    /\ effect.failed
    /\ effect.returned = "null"

\* C17: a rejection of the promise a handler returned is caught by the
\* registry: it never surfaces as an unhandled rejection.
C17_RejectionCaught == ~unhandled

\* C18: isConnected is true only while the transport held is open; after any
\* connect() it is false until the new transport's open event.
C18_ConnectedOnlyWhileOpen ==
    isConnected => (eventSourceRef # 0 /\ es[eventSourceRef] = "OPEN")

\* C19: at most one reconnection timer is pending at any time.
C19_OneTimer == Cardinality(DOMAIN timers) <= 1

\* C20: Closed is terminal: once disconnect() has run for a disabled or
\* unmounted scope, a step that leaves the scope as it is (a timer firing, a
\* reconnect() call) creates no transport.  Stated for the step that follows
\* disconnect(), and for every step of an unmounted scope.
C20_ClosedIsTerminal ==
    [][((lastOp = "disconnect" \/ scope = "unmounted") /\ scope' = scope) =>
           (eventSourceRef' = 0 /\ Live(es') = {})]_vars

\* C21 as stated: a frame of a kind outside SSEEventType is delivered to the
\* registry: when a handler is subscribed under that kind, a pass over the
\* kind's handlers begins.
C21_UnknownKindDispatched ==
    (lastOp = "unlistened frame" /\ handlersRef[UnknownKind] # <<>>) =>
        (pass.active /\ pass.kind = UnknownKind)

\* C21 amended: a frame of a kind outside SSEEventType reaches no listener:
\* no pass begins, whether or not a handler is subscribed under that kind,
\* and the connection state and the subscriptions are left as they were.
C21_UnknownKindIgnored ==
    [][lastOp' \in {"unlistened frame", "unlistened bad frame"} =>
           (~pass'.active /\ UNCHANGED <<handlersRef, connVars>>)]_vars

\* such a frame arrived with hA subscribed under its kind
C21_Witness ==
    /\ lastOp = "unlistened frame"
    /\ handlersRef[UnknownKind] = <<"hA">>
    /\ ~pass.active

ConnectionOps ==
    {"connect", "idle", "disconnect", "reconnect", "open", "error", "timer"}

\* C22: subscriptions are independent of the connection's lifecycle: no
\* connect(), disconnect(), reconnect(), open, error or timer firing changes
\* the registry, and a frame of any transport, old or new, starts its pass
\* over the handlers subscribed to its kind at that moment.
C22_RegistryOutlivesTransport ==
    [][/\ lastOp' \in ConnectionOps => handlersRef' = handlersRef
       /\ lastOp' = "frame" =>
              (pass'.active /\ pass'.pending = handlersRef[pass'.kind])]_vars

\* a frame of the second transport, the one a reconnection created, is being
\* dispatched to hA
C22_Witness ==
    /\ lastOp = "frame"
    /\ eventSourceRef = 2
    /\ es = (2 :> "OPEN")
    /\ pass.kind = "rates_updated"
    /\ pass.pending = <<"hA">>

\* C25: whenever isConnected is true no reconnection timer is pending.
C25_NoTimerWhileConnected == isConnected => DOMAIN timers = {}

ConsumerMounted == consumer.state = "mounted"

\* C23: the rates_updated handler's continuation acts only while the handler
\* is still subscribed: once the consumer has unmounted, a getRates that
\* settles writes nothing to the cache and invalidates nothing.
C23_ContinuationChecksActive ==
    lastOp = "rates refreshed" => ConsumerMounted

\* C24: a logical alert_triggered event delivered more than once shows the
\* notifications of a single delivery: no two notifications on display belong
\* to the same event.
C24_DuplicateAlertIdempotent ==
    \A x, y \in notifications : x.event_id = y.event_id => x = y

\* C26: an older getRates response never overwrites a newer one in the rates
\* cache entry.
C26_NewestResponseWins == [][cache' >= cache]_vars

\* C27: refresh() calls reconnect() only if the stream is disconnected at the
\* moment it decides, after its await.
C27_RefreshReconnectsOnlyIfDown ==
    [][lastOp' = "refresh reconnect" => ~isConnected]_vars

C30_OneHandlerPerKind ==
    /\ Len(handlersRef["rates_updated"]) <= 1
    /\ Len(handlersRef["alert_triggered"]) <= 1
    /\ ConsumerMounted =>
           /\ handlersRef["rates_updated"] = <<ConsumerRefs(consumer.gen).rates>>
           /\ handlersRef["alert_triggered"] = <<ConsumerRefs(consumer.gen).alert>>
    /\ ~ConsumerMounted =>
           (handlersRef["rates_updated"] = <<>> /\ handlersRef["alert_triggered"] = <<>>)
    /\ lastOp = "alert_triggered" => Len(effect.requests) <= 1

\* the subscription effect has run again (the first run's closures are the
\* ones numbered 1) and an alert has then made exactly one request
C30_Witness ==
    /\ ConsumerMounted
    /\ consumer.gen = 2
    /\ lastOp = "alert_triggered"
    /\ Len(effect.requests) = 1
    /\ handlersRef["alert_triggered"] = <<"handleAlertTriggered2">>

\* C28: a dispatch pass invokes each handler at most once, whatever the
\* handlers do during the pass.
C28_AtMostOncePerPass ==
    \A h \in Handlers : Count(InvokedHandlers, h) <= 1

====
